---- MODULE Spec2Model ----
(***************************************************************************)
(* Monthly quality/momentum rebalancer, in its two variants:               *)
(*   "trend"    : revenue-roic-fcf-momentum.py                             *)
(*   "no_trend" : revenue-roic-fcf-momentum-no-trend.py                    *)
(*                                                                         *)
(* A factor value is <<>> when missing (NaN) and <<v>> when present.       *)
(* A weight w stands for the fraction w / Unit, so that 1.0 is Unit and    *)
(* every weight the code computes (1/TARGET_SECURITIES, the bond share)    *)
(* is a whole number of units: the arithmetic is exact.                    *)
(***************************************************************************)
EXTENDS Integers, Sequences, FiniteSets, TLC

VARIABLES
    variant,            \* which of the two algorithms runs
    TARGET_SECURITIES,  \* context.TARGET_SECURITIES
    TOP_ROE_QTY,        \* context.TOP_ROE_QTY
    universe,           \* Q500US() members as of the evaluation date
    fundamentals,       \* ms.<factor>.latest, per factor and security
    returns,            \* Returns(window_length=MOMENTUM_LOOKBACK_DAYS)
    nUpdates,           \* data-provider changes so far
    df,                 \* what algo.pipeline_output('pipeline') last returned
    positions,          \* context.portfolio.positions (assets held)
    stock_weights,      \* context.stock_weights
    bond_weights,       \* context.bond_weights
    orders,             \* <<>> or <<the last call of order_optimal_portfolio>>
    nOrders,            \* calls of order_optimal_portfolio so far
    cycle,              \* scheduled rebalance cycles started so far
    failed,             \* the current cycle's select raised
    pc                  \* "idle", "selected", "traded", "halted"; "reselected"
                        \* after a second run of select (SpecReselect)

vars == <<variant, TARGET_SECURITIES, TOP_ROE_QTY, universe, fundamentals,
          returns, nUpdates, df, positions, stock_weights,
          bond_weights, orders, nOrders, cycle, failed, pc>>

(***************************************************************************)
(* Bounds of the exploration.                                              *)
(***************************************************************************)
NumSec == 5             \* equities known to the data provider
MaxCycles == 2          \* rebalance cycles per run
MaxUpdates == 1         \* changes of the data provider's tables per run

Securities == 1..NumSec             \* equities, by sid
IEF == NumSec + 1
TLT == NumSec + 2
BONDS == <<IEF, TLT>>
BondSet == {BONDS[i] : i \in 1..Len(BONDS)}

Factors == {"cash_return", "fcf_yield", "roic", "revenue_growth"}

Missing == <<>>
IsNull(x) == x = Missing
\* What a data change may write: missing, below or above every initial value.
UpdateVals == {Missing, <<0>>, <<NumSec + 1>>}
SpyVals == {Missing, <<1>>, <<2>>}

\* The two programs as written, and each with the configuration of the
\* specification's scenarios (TARGET_SECURITIES = 2, TOP_QUALITY_QTY = 3).
Configs ==
    { [variant |-> "trend",    TARGET_SECURITIES |-> 5, TOP_ROE_QTY |-> 50],
      [variant |-> "no_trend", TARGET_SECURITIES |-> 5, TOP_ROE_QTY |-> 100],
      [variant |-> "trend",    TARGET_SECURITIES |-> 2, TOP_ROE_QTY |-> 3],
      [variant |-> "no_trend", TARGET_SECURITIES |-> 2, TOP_ROE_QTY |-> 3] }

Unit == TARGET_SECURITIES * Len(BONDS)

Max(a, b) == IF a >= b THEN a ELSE b

RECURSIVE SumOver(_, _)
SumOver(f, S) ==
    IF S = {} THEN 0
    ELSE LET x == CHOOSE y \in S : TRUE IN f[x] + SumOver(f, S \ {x})

\* pd.Series.sum()
sum(series) == SumOver(series, DOMAIN series)

\* pd.Series(index=..., data=scalar)
Series(index, data) == [i \in index |-> data]

(***************************************************************************)
(* Pipeline terms (zipline Factor / Filter semantics).  A Factor is a      *)
(* column of values per security, a Filter a column of booleans; columns   *)
(* are tuples indexed by sid.  An operator over columns binds each operand *)
(* once (x \in {operand}) so that an operand is computed a single time.    *)
(***************************************************************************)
\* The column with f[s] at every security s
Column(f) == SubSeq(f, 1, NumSec)

\* t sorts strictly before s in the ordinal ranking: by value (negated when
\* descending), ties by sid.
SortsBefore(col, ascending, t, s) ==
    LET a == IF ascending THEN col[t][1] ELSE 0 - col[t][1]
        b == IF ascending THEN col[s][1] ELSE 0 - col[s][1]
    IN  a < b \/ (a = b /\ t < s)

\* The ordinal rank of every masked, non-missing entry; a missing or
\* masked-out entry ranks as missing.
RankColumn(col, mask, ascending) ==
    Column([s \in Securities |->
        IF ~mask[s] \/ IsNull(col[s]) THEN Missing
        ELSE <<1 + Cardinality({t \in Securities : /\ mask[t]
                                                   /\ ~IsNull(col[t])
                                                   /\ SortsBefore(col, ascending, t, s)})>>])

\* Factor.rank(mask=..., ascending=...)
rank(col, mask, ascending) ==
    CHOOSE r \in {RankColumn(c, m, ascending) : c \in {col}, m \in {mask}} : TRUE

\* factor + factor: missing propagates
plus(x, y) ==
    CHOOSE r \in {Column([s \in Securities |->
                     IF IsNull(a[s]) \/ IsNull(b[s]) THEN Missing
                     ELSE <<a[s][1] + b[s][1]>>]) : a \in {x}, b \in {y}} : TRUE

\* top with the comparison off by one
top_one_more(col, N, mask) ==
    CHOOSE f \in {Column([s \in Securities |-> ~IsNull(r[s]) /\ r[s][1] <= N + 1]) :
                    r \in {rank(col, mask, FALSE)}} : TRUE

\* top over the ascending ranks (the N lowest)
top_ascending(col, N, mask) ==
    CHOOSE f \in {Column([s \in Securities |-> ~IsNull(r[s]) /\ r[s][1] <= N]) :
                    r \in {rank(col, mask, TRUE)}} : TRUE

\* Factor.top(N, mask=...) == rank(ascending=False, mask=mask) <= N
\* (a comparison with a missing rank is False)
top(col, N, mask) ==
    CHOOSE f \in {Column([s \in Securities |-> ~IsNull(r[s]) /\ r[s][1] <= N]) :
                    r \in {rank(col, mask, FALSE)}} : TRUE

\* Latest.notnull()
notnull(col) ==
    CHOOSE f \in {Column([s \in Securities |-> ~IsNull(c[s])]) : c \in {col}} : TRUE

\* filter & filter
and(p, q) ==
    CHOOSE f \in {Column([s \in Securities |-> a[s] /\ b[s]]) :
                    a \in {p}, b \in {q}} : TRUE

\* Q500US()
Q500US == Column([s \in Securities |-> s \in universe])

\* quality = value + roic + rev_growth, over ranks within the universe
quality ==
    LET cash_return == rank(fundamentals["cash_return"], Q500US, TRUE)
        fcf_yield   == rank(fundamentals["fcf_yield"], Q500US, TRUE)
        roic        == rank(fundamentals["roic"], Q500US, TRUE)
        rev_growth  == rank(fundamentals["revenue_growth"], Q500US, TRUE)
        value       == rank(plus(cash_return, fcf_yield), Q500US, TRUE)
    IN  plus(plus(value, roic), rev_growth)

\* momentum = Returns(window_length=context.MOMENTUM_LOOKBACK_DAYS)
momentum == returns

top_quality ==
    and(and(and(and(top(quality, TOP_ROE_QTY, Q500US),
                    notnull(fundamentals["cash_return"])),
                notnull(fundamentals["fcf_yield"])),
            notnull(fundamentals["roic"])),
        notnull(fundamentals["revenue_growth"]))

\* one security more than TARGET_SECURITIES
momentum_top_one_more(mask) == top(momentum, TARGET_SECURITIES + 1, mask)

\* momentum.top(context.TARGET_SECURITIES, mask=top_quality)
momentum_top(mask) == top(momentum, TARGET_SECURITIES, mask)

\* momentum ranked over the whole universe instead of the quality set
top_quality_momentum_over_universe == momentum_top(Q500US)

top_quality_momentum == momentum_top(top_quality)

\* trend_up = spy_ma_fast > spy_ma_slow; a comparison with NaN is False
trend_up(spy_ma_fast, spy_ma_slow) ==
    /\ ~IsNull(spy_ma_fast)
    /\ ~IsNull(spy_ma_slow)
    /\ spy_ma_fast[1] > spy_ma_slow[1]

\* The securities on which a filter is True
Rows(filter) == {s \in Securities : filter[s]}

\* The frame pipeline_output returns: the rows passing the screen, with the
\* columns of the variant (trend_up is the same on every row).
pipeline_output(screen, spy_ma_fast, spy_ma_slow) ==
    IF variant = "trend"
    THEN [index |-> Rows(screen),
          top_quality_momentum |-> Rows(screen),
          trend_up |-> trend_up(spy_ma_fast, spy_ma_slow)]
    ELSE [index |-> Rows(screen),
          top_quality_momentum |-> Rows(screen)]

(***************************************************************************)
(* select_stocks_and_set_weights                                           *)
(***************************************************************************)
\* The rule without its clause for held positions
rule_trend_only(frame, index, current_holdings) ==
    IF variant = "trend"
    THEN index \in frame.top_quality_momentum /\ frame.trend_up
    ELSE index \in frame.top_quality_momentum

\* The query string, on one row of the frame.  pandas reads & and | with the
\* precedence of and / or, so the trend rule is
\*   top_quality_momentum and (trend_up or ((not trend_up) and (index in holdings)))
rule(frame, index, current_holdings) ==
    IF variant = "trend"
    THEN /\ index \in frame.top_quality_momentum
         /\ \/ frame.trend_up
            \/ (~frame.trend_up /\ index \in current_holdings)
    ELSE index \in frame.top_quality_momentum

\* Held equities kept in a downtrend whether or not the pipeline returns them
stocks_to_hold_keeping_held(frame, current_holdings) ==
    {index \in frame.index : rule(frame, index, current_holdings)}
        \cup (IF variant = "trend" /\ ~frame.trend_up
               THEN current_holdings \cap Securities ELSE {})

stocks_to_hold(frame, current_holdings) ==
    {index \in frame.index : rule(frame, index, current_holdings)}

\* 1.0 / context.TARGET_SECURITIES
stock_weight == Unit \div TARGET_SECURITIES

\* The new weights added onto the stored ones
new_stock_weights_added(frame, current_holdings) ==
    LET chosen == stocks_to_hold(frame, current_holdings)
    IN  [i \in chosen \cup DOMAIN stock_weights |->
            (IF i \in DOMAIN stock_weights THEN stock_weights[i] ELSE 0)
          + (IF i \in chosen THEN stock_weight ELSE 0)]

\* The stored series updated in place: entries of earlier cycles stay
new_stock_weights_updated(frame, current_holdings) ==
    LET chosen == stocks_to_hold(frame, current_holdings)
    IN  [i \in chosen \cup DOMAIN stock_weights |->
            IF i \in chosen THEN stock_weight ELSE stock_weights[i]]

\* context.stock_weights = pd.Series(index=stocks_to_hold, data=stock_weight)
new_stock_weights(frame, current_holdings) ==
    Series(stocks_to_hold(frame, current_holdings), stock_weight)

\* The leftover given whole to every bond
bond_weight_undivided(weights) == Max(Unit - sum(weights), 0)

\* max(1.0 - context.stock_weights.sum(), 0) / len(context.BONDS)
bond_weight(weights) == Max(Unit - sum(weights), 0) \div Len(BONDS)

\* context.bond_weights = pd.Series(index=context.BONDS, data=bond_weight);
\* the no-trend variant has no bond_weights
new_bond_weights(weights) ==
    IF variant = "trend" THEN Series(BondSet, bond_weight(weights)) ELSE bond_weights

\* pd.concat of two series over disjoint indexes
concat(a, b) ==
    [i \in DOMAIN a \cup DOMAIN b |-> IF i \in DOMAIN a THEN a[i] ELSE b[i]]

\* What trade hands to opt.TargetWeights
total_weights ==
    IF variant = "trend" THEN concat(stock_weights, bond_weights) ELSE stock_weights

\* The exception swallowed: the day goes on to trade
after_exception_swallowed == "selected"

\* An exception raised in a scheduled function is caught nowhere in the
\* algorithm: it leaves the handler and ends the run.
after_exception == "halted"

(***************************************************************************)
(* Initial state: initialize() has run, nothing is held, the data provider *)
(* holds a complete data set with distinct quality and momentum orders.    *)
(***************************************************************************)
\* Fundamentals falling with the sid (security 1 has the best of each), or
\* the same for every security (every rank is decided by the tie-break).
BaseFundamentals == [f \in Factors |-> Column([s \in Securities |-> <<NumSec + 1 - s>>])]
TiedFundamentals == [f \in Factors |-> Column([s \in Securities |-> <<1>>])]

\* Trailing returns rising with the sid
BaseReturns == Column([s \in Securities |-> <<s>>])

InitWith(tables) ==
    /\ \E c \in Configs :
          /\ variant = c.variant
          /\ TARGET_SECURITIES = c.TARGET_SECURITIES
          /\ TOP_ROE_QTY = c.TOP_ROE_QTY
    /\ universe = Securities
    /\ fundamentals \in tables
    /\ returns = BaseReturns
    /\ nUpdates = 0
    /\ df = [index |-> {}]
    /\ positions = {}
    /\ stock_weights = <<>>
    /\ bond_weights = <<>>
    /\ orders = <<>>
    /\ nOrders = 0
    /\ cycle = 0
    /\ failed = FALSE
    /\ pc = "idle"

Init == InitWith({BaseFundamentals})

InitPipeline == InitWith({BaseFundamentals, TiedFundamentals})

context == <<variant, TARGET_SECURITIES, TOP_ROE_QTY>>

(***************************************************************************)
(* The data provider moves between two cycles.                             *)
(***************************************************************************)
\* One fundamental of one security changes
FundamentalsUpdate ==
    /\ pc = "idle"
    /\ cycle < MaxCycles
    /\ nUpdates < MaxUpdates
    /\ nUpdates' = nUpdates + 1
    /\ \E s \in Securities, f \in Factors, v \in UpdateVals :
          /\ fundamentals[f][s] # v
          /\ fundamentals' = [fundamentals EXCEPT ![f][s] = v]
    /\ UNCHANGED <<context, universe, returns, df, positions, stock_weights,
                   bond_weights, orders, nOrders, cycle, failed, pc>>

\* The trailing return of one security changes, or one security enters or
\* leaves the universe
MarketUpdate ==
    /\ pc = "idle"
    /\ cycle < MaxCycles
    /\ nUpdates < MaxUpdates
    /\ nUpdates' = nUpdates + 1
    /\ \E s \in Securities :
          \/ \E v \in UpdateVals :
                /\ returns[s] # v
                /\ returns' = [returns EXCEPT ![s] = v]
                /\ UNCHANGED universe
          \/ /\ universe' = IF s \in universe THEN universe \ {s}
                                               ELSE universe \cup {s}
             /\ UNCHANGED returns
    /\ UNCHANGED <<context, fundamentals, df, positions, stock_weights,
                   bond_weights, orders, nOrders, cycle, failed, pc>>

\* select_stocks_and_set_weights(context, data), first scheduled function of
\* the rebalance day
Select ==
    /\ pc = "idle"
    /\ cycle < MaxCycles
    /\ \E screen \in {top_quality_momentum} :
         \E spy_ma_fast \in SpyVals, spy_ma_slow \in SpyVals :
            LET frame == pipeline_output(screen, spy_ma_fast, spy_ma_slow)
                weights == new_stock_weights(frame, positions)
            IN  /\ df' = frame
                /\ stock_weights' = weights
                /\ bond_weights' = new_bond_weights(weights)
    /\ cycle' = cycle + 1
    /\ failed' = FALSE
    /\ pc' = "selected"
    /\ UNCHANGED <<context, universe, fundamentals, returns, nUpdates,
                   positions, orders, nOrders>>

\* algo.pipeline_output (or the query) raises: nothing has been assigned yet
SelectFails ==
    /\ pc = "idle"
    /\ cycle < MaxCycles
    /\ cycle' = cycle + 1
    /\ failed' = TRUE
    /\ pc' = after_exception
    /\ UNCHANGED <<context, universe, fundamentals, returns, nUpdates, df,
                   positions, stock_weights, bond_weights, orders, nOrders>>

\* trade(context, data), second scheduled function of the rebalance day
Trade ==
    /\ pc = "selected"
    /\ orders' = << [objective |-> total_weights, MaxGrossExposure |-> Unit] >>
    /\ nOrders' = nOrders + 1
    /\ pc' = "traded"
    /\ UNCHANGED <<context, universe, fundamentals, returns, nUpdates, df,
                   positions, stock_weights, bond_weights, cycle, failed>>

\* The executor works on the order: it is rejected or stays unfilled, or it
\* is filled, but for at most one asset (an asset outside the target weights
\* has target 0).  The fills of the last cycle explored are left out: no
\* later cycle reads them.
Targets(weights) == {a \in DOMAIN weights : weights[a] > 0}

Fill ==
    /\ pc = "traded"
    /\ cycle < MaxCycles
    /\ \E want \in {Targets(orders[1].objective)} :
          \E P \in SUBSET (positions \cup want) :
             /\ (positions \cap want) \subseteq P
             /\ \/ P = positions
                \/ Cardinality((P \ want) \cup (want \ P)) <= 1
             /\ positions' = P
    /\ pc' = "idle"
    /\ UNCHANGED <<context, universe, fundamentals, returns, nUpdates, df,
                   stock_weights, bond_weights, orders, nOrders, cycle, failed>>

\* The scheduled cycles, with the market moving between them
Next ==
    \/ MarketUpdate
    \/ Select
    \/ SelectFails
    \/ Trade
    \/ Fill

Spec == Init /\ [][Next]_vars

\* One cycle over data in which fundamentals have changed too
NextPipeline ==
    \/ FundamentalsUpdate
    \/ MarketUpdate
    \/ Select
    \/ Trade

SpecPipeline == InitPipeline /\ [][NextPipeline]_vars

\* select_stocks_and_set_weights run a second time on the frame and the
\* holdings of its first run, before trade
Reselect ==
    /\ pc = "selected"
    /\ \E weights \in {new_stock_weights(df, positions)} :
          /\ stock_weights' = weights
          /\ bond_weights' = new_bond_weights(weights)
    /\ pc' = "reselected"
    /\ UNCHANGED <<context, universe, fundamentals, returns, nUpdates, df,
                   positions, orders, nOrders, cycle, failed>>

NextReselect ==
    \/ MarketUpdate
    \/ Select
    \/ Reselect
    \/ SelectFails
    \/ Trade
    \/ Fill

SpecReselect == Init /\ [][NextReselect]_vars

(***************************************************************************)
(* Properties                                                              *)
(***************************************************************************)
\* The WeightVector of the last call of order_optimal_portfolio
Submitted == orders[1].objective

EquitiesOf(weights) == DOMAIN weights \cap Securities

\* The Momentum Selector output the current cycle's select received
Output == df.index

\* Select has run in the current cycle, and the executor has not yet acted
InCycle == pc \in {"selected", "traded"}

\* C1: every WeightVector submitted has weights >= 0 and a total <= 1.0: at
\* most TARGET_SECURITIES equities at 1/TARGET_SECURITIES each, plus (trend
\* variant) every bond at max(1 - equity sum, 0) / |BONDS|.
C1_WeightsBounded ==
    nOrders > 0 =>
        LET w == Submitted
            E == EquitiesOf(w)
        IN  /\ \A a \in DOMAIN w : w[a] >= 0
            /\ sum(w) <= Unit
            /\ Cardinality(E) <= TARGET_SECURITIES
            /\ \A e \in E : w[e] * TARGET_SECURITIES = Unit
            /\ IF variant = "trend"
               THEN /\ DOMAIN w = E \cup BondSet
                    /\ \A b \in BondSet :
                          w[b] * Len(BONDS) = Max(Unit - SumOver(w, E), 0)
               ELSE DOMAIN w = E

\* A second cycle has submitted some equities and a positive bond share
C1_Witness ==
    /\ nOrders = 2
    /\ pc = "traded"
    /\ variant = "trend"
    /\ EquitiesOf(Submitted) # {}
    /\ Cardinality(EquitiesOf(Submitted)) < TARGET_SECURITIES
    /\ \A b \in BondSet : Submitted[b] > 0

\* C2: trend variant: an equity gets a target weight iff it is in the
\* Momentum Selector output and (TrendSignal is true or it is held at cycle
\* start); so a downtrend weights no equity that is not held, and an uptrend
\* weights every member of the output.
C2_TrendRule ==
    (variant = "trend" /\ InCycle) =>
        /\ DOMAIN stock_weights = {s \in Output : df.trend_up \/ s \in positions}
        /\ (~df.trend_up => DOMAIN stock_weights \subseteq positions)
        /\ (df.trend_up => Output \subseteq DOMAIN stock_weights)
        /\ (pc = "traded" => EquitiesOf(Submitted) = DOMAIN stock_weights)

\* A downtrend in which one output member is held (and weighted) and
\* another is not held (and not weighted)
C2_Witness ==
    /\ variant = "trend"
    /\ pc = "selected"
    /\ ~df.trend_up
    /\ \E s \in Output \cap positions : s \in DOMAIN stock_weights
    /\ \E t \in Output \ positions : t \notin DOMAIN stock_weights

\* C3: trend variant: every bond gets max(1 - equity sum, 0) / |BONDS|, the
\* total is exactly 1; with TrendSignal false and no held output member all
\* weight goes to the bonds, evenly; and with TrendSignal false, holdings
\* {C}, output {B, C} and TARGET_SECURITIES = 2 the result is C at 0.5 and
\* each of the two bonds at 0.25.
C3_BondsAbsorb ==
    (variant = "trend" /\ InCycle) =>
        /\ DOMAIN bond_weights = BondSet
        /\ \A b \in BondSet :
              bond_weights[b] * Len(BONDS) = Max(Unit - sum(stock_weights), 0)
        /\ sum(stock_weights) + sum(bond_weights) = Unit
        /\ (~df.trend_up /\ positions \cap Output = {}) =>
              /\ stock_weights = <<>>
              /\ \A b \in BondSet : bond_weights[b] * Len(BONDS) = Unit
        /\ ( /\ TARGET_SECURITIES = 2
             /\ ~df.trend_up
             /\ positions \cap Securities = {3}
             /\ Output = {2, 3} ) =>
              /\ Len(BONDS) = 2
              /\ DOMAIN stock_weights = {3}
              /\ stock_weights[3] * 2 = Unit
              /\ \A b \in BondSet : bond_weights[b] * 4 = Unit

\* The scenario: C held, B and C returned, downtrend, two equity slots
C3_Witness ==
    /\ variant = "trend"
    /\ pc = "selected"
    /\ TARGET_SECURITIES = 2
    /\ ~df.trend_up
    /\ positions \cap Securities = {3}
    /\ Output = {2, 3}
    /\ DOMAIN stock_weights = {3}

\* C10: trend variant: a held equity that is not in the cycle's Momentum
\* Selector output gets no target weight, whatever the TrendSignal.
C10_HeldOutsideOutput ==
    (variant = "trend" /\ InCycle) =>
        \A s \in (positions \cap Securities) \ Output :
            /\ s \notin DOMAIN stock_weights
            /\ (pc = "traded" => s \notin DOMAIN Submitted)

\* A downtrend in which a held equity has left the output and is submitted
\* without a weight
C10_Witness ==
    /\ variant = "trend"
    /\ pc = "traded"
    /\ ~df.trend_up
    /\ \E s \in (positions \cap Securities) \ Output : s \notin DOMAIN Submitted

\* The WeightVector the policy prescribes for the frame and the holdings of
\* the current cycle
ExpectedStocks ==
    IF variant = "trend"
    THEN {s \in Output : df.trend_up \/ s \in positions}
    ELSE Output

ExpectedVector ==
    LET each == Unit \div TARGET_SECURITIES
        rest == Max(Unit - Cardinality(ExpectedStocks) * each, 0)
    IN  [a \in ExpectedStocks \cup (IF variant = "trend" THEN BondSet ELSE {}) |->
            IF a \in ExpectedStocks THEN each ELSE rest \div Len(BONDS)]

\* C6: when the pipeline output fails in a cycle, the cycle submits nothing
\* and the live positions stay as they are; a submission is only ever the
\* complete WeightVector built by the select of the same cycle.
C6_FailureAborts ==
    /\ [][failed' => /\ nOrders' = nOrders
                     /\ orders' = orders
                     /\ positions' = positions]_vars
    /\ [][nOrders' # nOrders => /\ pc = "selected"
                                /\ ~failed
                                /\ orders'[1].objective = ExpectedVector]_vars

\* The second cycle has failed: the first cycle's weights are still stored,
\* its positions are still held, and only its order has been submitted
C6_Witness ==
    /\ failed
    /\ pc = "halted"
    /\ cycle = 2
    /\ nOrders = 1
    /\ stock_weights # <<>>
    /\ positions # {}

\* C7: a second run of select on the same frame and holdings leaves
\* stock_weights and bond_weights as the first run set them.
C7_SelectIdempotent ==
    [][pc' = "reselected" => /\ stock_weights' = stock_weights
                            /\ bond_weights' = bond_weights]_vars

\* Select has run twice in a second cycle, over the weights of the first
C7_Witness ==
    /\ pc = "reselected"
    /\ cycle = 2
    /\ nOrders = 1
    /\ Submitted # <<>>
    /\ stock_weights # <<>>

\* C9: in every cycle select completes before trade, and trade submits, with
\* the gross-exposure limit 1.0, exactly the vector select built in that
\* cycle from the cycle's frame and holdings; trade leaves the stored
\* weights as they are.
C9_SelectThenTrade ==
    /\ [](pc = "selected" => nOrders = cycle - 1)
    /\ [](pc = "traded" => /\ nOrders = cycle
                           /\ Submitted = ExpectedVector
                           /\ Submitted = total_weights
                           /\ orders[1].MaxGrossExposure = Unit)
    /\ [][nOrders' # nOrders => /\ pc = "selected"
                                /\ stock_weights' = stock_weights
                                /\ bond_weights' = bond_weights]_vars

\* The second cycle's vector has equities but lacks an equity that is held,
\* hence one the first cycle's vector had
C9_Witness ==
    /\ cycle = 2
    /\ pc = "traded"
    /\ EquitiesOf(Submitted) # {}
    /\ \E s \in positions \cap Securities : s \notin DOMAIN Submitted

\* The universe securities with all four raw factors present
Complete ==
    {s \in universe : \A f \in Factors : ~IsNull(fundamentals[f][s])}

\* s is ahead of t by the score col: a higher score, or the same score and
\* the lower sid
Ahead(col, s, t) ==
    col[s][1] > col[t][1] \/ (col[s][1] = col[t][1] /\ s < t)

\* The K members of candidates that are ahead of all others by col
TopK(col, K, candidates) ==
    {s \in candidates : Cardinality({t \in candidates : Ahead(col, t, s)}) < K}

\* C4: a universe security missing any of the four raw factors has no
\* QualityScore and is in neither the top-quality set, the Momentum Selector
\* output nor the WeightVector, whatever its other factors and its momentum.
C4_IncompleteExcluded ==
    \A q \in {quality}, tq \in {top_quality}, tqm \in {top_quality_momentum} :
        \A s \in universe \ Complete :
            /\ IsNull(q[s])
            /\ ~tq[s]
            /\ ~tqm[s]
            /\ InCycle => (s \notin Output /\ s \notin DOMAIN stock_weights)
            /\ pc = "traded" => s \notin DOMAIN Submitted

\* An order is out, and a universe security with one factor missing has a
\* higher momentum than every security of the order
C4_Witness ==
    /\ pc = "traded"
    /\ Submitted # <<>>
    /\ \E s \in universe \ Complete :
          /\ ~IsNull(returns[s])
          /\ Cardinality({f \in Factors : IsNull(fundamentals[f][s])}) = 1
          /\ \A t \in EquitiesOf(Submitted) : returns[t][1] < returns[s][1]

\* C5 as stated: quality output size <= TOP_QUALITY_QTY and momentum output
\* size <= TARGET_SECURITIES <= quality output size, in every universe.
C5_Original ==
    \A tq \in {Rows(top_quality)}, tqm \in {Rows(top_quality_momentum)} :
        /\ Cardinality(tq) <= TOP_ROE_QTY
        /\ Cardinality(tqm) <= TARGET_SECURITIES
        /\ TARGET_SECURITIES <= Cardinality(tq)

\* C5 amended: quality output size <= TOP_QUALITY_QTY, momentum output size
\* <= TARGET_SECURITIES and <= quality output size; TARGET_SECURITIES <=
\* quality output size holds exactly when at least TARGET_SECURITIES universe
\* securities have all four factors.
C5_Sizes ==
    \A tq \in {Rows(top_quality)}, tqm \in {Rows(top_quality_momentum)} :
        /\ Cardinality(tq) <= TOP_ROE_QTY
        /\ Cardinality(tqm) <= TARGET_SECURITIES
        /\ Cardinality(tqm) <= Cardinality(tq)
        /\ (TARGET_SECURITIES <= Cardinality(tq))
              <=> (TARGET_SECURITIES <= Cardinality(Complete))
        /\ InCycle => Cardinality(Output) <= TARGET_SECURITIES

\* Select has run over a universe with fewer complete securities than
\* TARGET_SECURITIES, and has returned some
C5_Witness ==
    /\ pc = "selected"
    /\ Cardinality(Complete) < TARGET_SECURITIES
    /\ Cardinality(Rows(top_quality)) < TARGET_SECURITIES
    /\ Output # {}

\* C8: the quality output is the top TOP_QUALITY_QTY complete universe
\* securities by QualityScore, the momentum output the top TARGET_SECURITIES
\* of those by MomentumScore (a subset of the quality output); the no-trend
\* policy weights each member of the momentum output 1/TARGET_SECURITIES and
\* nothing else, so that top-3 quality {A, B, C} with top-2 momentum {B, C}
\* gives B and C at 0.5 each.  (Equal scores: the lower sid is ahead.)
C8_TwoStageSelection ==
    \A q \in {quality}, tq \in {Rows(top_quality)},
       tqm \in {Rows(top_quality_momentum)} :
        /\ tq = TopK(q, TOP_ROE_QTY, Complete)
        /\ tqm = TopK(momentum, TARGET_SECURITIES,
                      {s \in tq : ~IsNull(momentum[s])})
        /\ tqm \subseteq tq
        /\ InCycle => Output = tqm
        /\ (variant = "no_trend" /\ InCycle) =>
              /\ stock_weights = [s \in tqm |-> Unit \div TARGET_SECURITIES]
              /\ \A s \in tqm : stock_weights[s] * TARGET_SECURITIES = Unit
              /\ bond_weights = <<>>
              /\ pc = "traded" => Submitted = stock_weights
        /\ ( /\ variant = "no_trend"
             /\ InCycle
             /\ TARGET_SECURITIES = 2
             /\ tq = {1, 2, 3}
             /\ tqm = {2, 3} ) =>
              /\ DOMAIN stock_weights = {2, 3}
              /\ stock_weights[2] * 2 = Unit
              /\ stock_weights[3] * 2 = Unit

\* The scenario: five complete securities, two slots, a quality shortlist
\* of three; A, B, C lead by quality and B, C of them by momentum, while the
\* two securities outside the shortlist have the highest momentum
C8_Witness ==
    /\ variant = "no_trend"
    /\ pc = "traded"
    /\ TARGET_SECURITIES = 2
    /\ TOP_ROE_QTY = 3
    /\ Cardinality(Complete) = 5
    /\ Rows(top_quality) = {1, 2, 3}
    /\ Rows(top_quality_momentum) = {2, 3}
    /\ \A s \in Complete \ {1, 2, 3} : returns[s][1] > returns[3][1]
    /\ DOMAIN Submitted = {2, 3}

====
